---- MODULE Spec2Model ----
(***************************************************************************)
(* HashMap<KeyType, ValueType, Hash> of src/hash_map.h: a hash table with  *)
(* separate chaining over std::vector<std::vector<pair>> with a trailing   *)
(* sentinel bucket, exact-equality grow/shrink rehashing, and a forward    *)
(* iterator that is a pair (bucket iterator, element iterator).            *)
(*                                                                         *)
(* Vectors are TLA+ sequences; the code's 0-based bucket index b and       *)
(* element offset j address hash_map_[b + 1][j + 1] here.  KeyType and     *)
(* ValueType are small integer ranges whose value-initialised element is 0.*)
(***************************************************************************)
EXTENDS Integers, Sequences, FiniteSets, TLC

\* ------------------------------------------------------------------ bounds
MaxKey == 2
MaxValue == 1
MaxListLen == 2

Keys == 0..MaxKey
Values == 0..MaxValue

\* ------------------------------------------------------- program constants
DefaultKey == 0
DefaultValue == 0
INCREASING_SIZE_COEFFICIENT == 1
CHANGING_SIZE_COEFFICIENT == 2
DECREASING_SIZE_COEFFICIENT == 4

ElementType == [first : Keys, second : Values]

\* ElementType end_ = ElementType();
end_ == [first |-> DefaultKey, second |-> DefaultValue]

\* The Hash template parameter: any deterministic key -> size_t functor.
\* Three representatives: injective, all keys colliding, pairwise colliding.
Hashers ==
    { [k \in Keys |-> k],
      [k \in Keys |-> 5],
      [k \in Keys |-> k \div 2] }

\* -------------------------------------------------------------- the state
VARIABLES
    hash_map_,   \* vector of buckets, the last one being the sentinel bucket
    hasher_,     \* the hash functor, fixed at construction
    sz_,         \* number of stored elements
    capacity_,   \* number of real buckets
    it,          \* the iterator the caller holds, or NoIter
    op,          \* the last call: name, arguments, outcome, returned value
    M            \* the abstract map the table is compared with

vars == <<hash_map_, hasher_, sz_, capacity_, it, op, M>>

\* The object as a value.  rehash_calls counts the evaluations of the resize
\* policy inside one call (instrumentation; reset at the start of each call).
this ==
    [hash_map_ |-> hash_map_, hasher_ |-> hasher_, sz_ |-> sz_,
     capacity_ |-> capacity_, rehash_calls |-> 0]

\* ------------------------------------------------------------- iterators
\* An iterator (i_, j_) is the pair of 0-based indices it points at.
Pos(i, j) == [i |-> i, j |-> j]

\* No iterator held (none obtained yet, or invalidated by a mutation).
NoIter == Pos(-1, 0)

\* Result of stepping outside the bucket vector: undefined behaviour, every
\* outcome is possible; the marker stands for all of them.
Dangling == Pos(-2, 0)

\* Mutant of next_not_empty: if in place of while, one bucket is skipped at
\* most.
next_not_empty_once(hm, i, j) ==
    IF i < 0 \/ i >= Len(hm) THEN Dangling
    ELSE IF j = Len(hm[i + 1])
         THEN (IF i + 1 >= Len(hm) THEN Dangling ELSE Pos(i + 1, 0))
         ELSE Pos(i, j)

\* void next_not_empty(): while (j_ == i_->end()) { ++i_; j_ = i_->begin(); }
RECURSIVE next_not_empty(_, _, _)
next_not_empty(hm, i, j) ==
    IF i < 0 \/ i >= Len(hm) THEN Dangling
    ELSE IF j = Len(hm[i + 1]) THEN next_not_empty(hm, i + 1, 0)
    ELSE Pos(i, j)

\* iterator(HashMapIterator i, BucketIterator j) : i_(i), j_(j) { next_not_empty(); }
iterator(hm, i, j) == next_not_empty(hm, i, j)

\* Mutant of operator++: ++i_ in place of ++j_, the rest of the bucket is
\* skipped.
increment_bucket(t, p) == next_not_empty(t.hash_map_, p.i + 1, 0)

\* iterator &operator++() { ++j_; next_not_empty(); }
increment(t, p) == next_not_empty(t.hash_map_, p.i, p.j + 1)

\* reference operator*()
deref(t, p) == t.hash_map_[p.i + 1][p.j + 1]

\* std::find_if over one bucket with the predicate element.first == key:
\* the offset of the first match, Len(bucket) (= end()) when there is none.
find_if_key(bucket, key) ==
    IF \E n \in 1..Len(bucket) : bucket[n].first = key
    THEN (CHOOSE n \in 1..Len(bucket) :
            /\ bucket[n].first = key
            /\ \A m \in 1..(n - 1) : bucket[m].first # key) - 1
    ELSE Len(bucket)

\* std::find_if over the bucket vector with the predicate !bucket.empty():
\* the index of the first non-empty bucket, Len(hm) (= end()) when none.
find_if_not_empty(hm) ==
    IF \E n \in 1..Len(hm) : hm[n] # <<>>
    THEN (CHOOSE n \in 1..Len(hm) :
            /\ hm[n] # <<>>
            /\ \A m \in 1..(n - 1) : hm[m] = <<>>) - 1
    ELSE Len(hm)

\* ------------------------------------------------------------ the methods
size(t) == t.sz_

empty(t) == t.sz_ = 0

\* return hasher_(key) % capacity_;
hash_key(t, key) == t.hasher_[key] % t.capacity_

\* return iterator(--hash_map_.end(), (--hash_map_.end())->begin());
end(t) == iterator(t.hash_map_, Len(t.hash_map_) - 1, 0)

\* Mutant of begin: the first bucket's begin(), with no search for a non-empty
\* bucket and no skipping.
begin_first_bucket(t) == Pos(0, 0)

\* it = find_if(first non-empty bucket); return iterator(it, it->begin());
begin(t) ==
    LET i == find_if_not_empty(t.hash_map_)
    IN  IF i = Len(t.hash_map_) THEN Dangling
        ELSE iterator(t.hash_map_, i, 0)

\* Mutant of find: the bucket index is taken modulo hash_map_.size(), the
\* number of buckets with the sentinel bucket, in place of capacity_.
find_mod_size(t, key) ==
    LET hashed_key == t.hasher_[key] % Len(t.hash_map_)
        bucket == t.hash_map_[hashed_key + 1]
        j == find_if_key(bucket, key)
    IN  IF j = Len(bucket) THEN end(t)
        ELSE iterator(t.hash_map_, hashed_key, j)

find(t, key) ==
    LET hashed_key == hash_key(t, key)
        bucket == t.hash_map_[hashed_key + 1]
        j == find_if_key(bucket, key)
    IN  IF j = Len(bucket) THEN end(t)
        ELSE iterator(t.hash_map_, hashed_key, j)

\* Mutant of the rehash loop body: hash_key(element.first), which reduces
\* modulo the old capacity_, in place of hasher_(element.first) % new_capacity.
RECURSIVE rehash_bucket_old_capacity(_, _, _, _)
rehash_bucket_old_capacity(new_hash_map, bucket, t, new_capacity) ==
    IF bucket = <<>> THEN new_hash_map
    ELSE LET element == Head(bucket)
             b == hash_key(t, element.first)
         IN  rehash_bucket_old_capacity(
                 IF b < new_capacity
                 THEN [new_hash_map EXCEPT ![b + 1] = Append(@, element)]
                 ELSE new_hash_map,
                 Tail(bucket), t, new_capacity)

\* Mutant of the rehash loop body: the element is put at the front of its new
\* bucket in place of push_back.
RECURSIVE rehash_bucket_push_front(_, _, _, _)
rehash_bucket_push_front(new_hash_map, bucket, t, new_capacity) ==
    IF bucket = <<>> THEN new_hash_map
    ELSE LET element == Head(bucket)
             b == t.hasher_[element.first] % new_capacity
         IN  rehash_bucket_push_front(
                 [new_hash_map EXCEPT ![b + 1] = <<element>> \o @],
                 Tail(bucket), t, new_capacity)

\* new_hash_map[hasher_(element.first) % new_capacity].push_back(element),
\* for the elements of one old bucket in order.
RECURSIVE rehash_bucket(_, _, _, _)
rehash_bucket(new_hash_map, bucket, t, new_capacity) ==
    IF bucket = <<>> THEN new_hash_map
    ELSE LET element == Head(bucket)
             b == t.hasher_[element.first] % new_capacity
         IN  rehash_bucket([new_hash_map EXCEPT ![b + 1] = Append(@, element)],
                           Tail(bucket), t, new_capacity)

\* for (size_t hashed_key = 0; hashed_key < capacity_; ++hashed_key) ...
RECURSIVE rehash_buckets(_, _, _, _)
rehash_buckets(new_hash_map, t, hashed_key, new_capacity) ==
    IF hashed_key >= t.capacity_ THEN new_hash_map
    ELSE rehash_buckets(
             rehash_bucket(new_hash_map, t.hash_map_[hashed_key + 1],
                           t, new_capacity),
             t, hashed_key + 1, new_capacity)

\* HashMapType new_hash_map(new_capacity): new_capacity empty buckets.
RECURSIVE empty_buckets(_)
empty_buckets(n) == IF n = 0 THEN <<>> ELSE Append(empty_buckets(n - 1), <<>>)

\* Mutant of rehash_if_necessary: new_hash_map.push_back({end_}) is missing.
rehash_without_sentinel(t) ==
    LET c == [t EXCEPT !.rehash_calls = @ + 1]
    IN  IF /\ t.sz_ * INCREASING_SIZE_COEFFICIENT # t.capacity_
           /\ t.sz_ * DECREASING_SIZE_COEFFICIENT # t.capacity_
        THEN c
        ELSE LET new_capacity == t.sz_ * CHANGING_SIZE_COEFFICIENT
                 fresh == empty_buckets(new_capacity)
                 new_hash_map == rehash_buckets(fresh, t, 0, new_capacity)
             IN  [c EXCEPT !.hash_map_ = new_hash_map,
                           !.capacity_ = new_capacity]

\* Mutant of rehash_if_necessary: the table also grows once it is half full.
rehash_at_half_load(t) ==
    LET c == [t EXCEPT !.rehash_calls = @ + 1]
    IN  IF /\ t.sz_ * CHANGING_SIZE_COEFFICIENT < t.capacity_
           /\ t.sz_ * DECREASING_SIZE_COEFFICIENT # t.capacity_
        THEN c
        ELSE LET new_capacity == t.sz_ * CHANGING_SIZE_COEFFICIENT
                 fresh == empty_buckets(new_capacity)
                 new_hash_map == rehash_buckets(fresh, t, 0, new_capacity)
             IN  [c EXCEPT !.hash_map_ = Append(new_hash_map, <<end_>>),
                           !.capacity_ = new_capacity]

\* Mutant of rehash_if_necessary: the new capacity is four times the size.
rehash_quadruple(t) ==
    LET c == [t EXCEPT !.rehash_calls = @ + 1]
    IN  IF /\ t.sz_ * INCREASING_SIZE_COEFFICIENT # t.capacity_
           /\ t.sz_ * DECREASING_SIZE_COEFFICIENT # t.capacity_
        THEN c
        ELSE LET new_capacity == t.sz_ * DECREASING_SIZE_COEFFICIENT
                 fresh == empty_buckets(new_capacity)
                 new_hash_map == rehash_buckets(fresh, t, 0, new_capacity)
             IN  [c EXCEPT !.hash_map_ = Append(new_hash_map, <<end_>>),
                           !.capacity_ = new_capacity]

\* Mutant of rehash_if_necessary: the shrink trigger is missing.
rehash_grow_only(t) ==
    LET c == [t EXCEPT !.rehash_calls = @ + 1]
    IN  IF t.sz_ * INCREASING_SIZE_COEFFICIENT # t.capacity_
        THEN c
        ELSE LET new_capacity == t.sz_ * CHANGING_SIZE_COEFFICIENT
                 fresh == empty_buckets(new_capacity)
                 new_hash_map == rehash_buckets(fresh, t, 0, new_capacity)
             IN  [c EXCEPT !.hash_map_ = Append(new_hash_map, <<end_>>),
                           !.capacity_ = new_capacity]

rehash_if_necessary(t) ==
    LET c == [t EXCEPT !.rehash_calls = @ + 1]
    IN  IF /\ t.sz_ * INCREASING_SIZE_COEFFICIENT # t.capacity_
           /\ t.sz_ * DECREASING_SIZE_COEFFICIENT # t.capacity_
        THEN c
        ELSE LET new_capacity == t.sz_ * CHANGING_SIZE_COEFFICIENT
                 fresh == empty_buckets(new_capacity)
                 new_hash_map == rehash_buckets(fresh, t, 0, new_capacity)
             IN  [c EXCEPT !.hash_map_ = Append(new_hash_map, <<end_>>),
                           !.capacity_ = new_capacity]

\* Mutant of insert: the early return on an existing key is missing.
insert_always(t, element) ==
    rehash_if_necessary(
        [t EXCEPT !.hash_map_[hash_key(t, element.first) + 1] =
                       Append(@, element),
                  !.sz_ = @ + 1])

\* Mutant of insert: an existing key gets the new value (last write wins).
insert_overwrite(t, element) ==
    LET p == find(t, element.first)
    IN  IF p # end(t)
        THEN [t EXCEPT !.hash_map_[p.i + 1][p.j + 1] = element]
        ELSE rehash_if_necessary(
                 [t EXCEPT !.hash_map_[hash_key(t, element.first) + 1] =
                                Append(@, element),
                           !.sz_ = @ + 1])

\* Mutant of insert: the call of rehash_if_necessary is missing.
insert_no_rehash(t, element) ==
    IF find(t, element.first) # end(t) THEN t
    ELSE [t EXCEPT !.hash_map_[hash_key(t, element.first) + 1] =
                       Append(@, element),
                   !.sz_ = @ + 1]

insert(t, element) ==
    IF find(t, element.first) # end(t) THEN t
    ELSE rehash_if_necessary(
             [t EXCEPT !.hash_map_[hash_key(t, element.first) + 1] =
                            Append(@, element),
                       !.sz_ = @ + 1])

\* std::vector::erase(it): the element at 0-based offset j is removed, the
\* ones behind it move up.
vector_erase(bucket, j) ==
    SubSeq(bucket, 1, j) \o SubSeq(bucket, j + 2, Len(bucket))

\* Mutant of erase: --sz_ is missing.
erase_keeps_size(t, key) ==
    LET hashed_key == hash_key(t, key)
        bucket == t.hash_map_[hashed_key + 1]
        j == find_if_key(bucket, key)
    IN  IF j = Len(bucket) THEN t
        ELSE rehash_if_necessary(
                 [t EXCEPT !.hash_map_[hashed_key + 1] = vector_erase(@, j)])

\* Mutant of erase: the early return on an absent key is missing its return,
\* the resize policy is evaluated on every call.
erase_always_rehash(t, key) ==
    LET hashed_key == hash_key(t, key)
        bucket == t.hash_map_[hashed_key + 1]
        j == find_if_key(bucket, key)
    IN  IF j = Len(bucket) THEN rehash_if_necessary(t)
        ELSE rehash_if_necessary(
                 [t EXCEPT !.hash_map_[hashed_key + 1] = vector_erase(@, j),
                           !.sz_ = @ - 1])

\* Mutant of erase: the call of rehash_if_necessary is missing.
erase_no_rehash(t, key) ==
    LET hashed_key == hash_key(t, key)
        bucket == t.hash_map_[hashed_key + 1]
        j == find_if_key(bucket, key)
    IN  IF j = Len(bucket) THEN t
        ELSE [t EXCEPT !.hash_map_[hashed_key + 1] = vector_erase(@, j),
                       !.sz_ = @ - 1]

\* Mutant of erase: the bucket index is taken modulo hash_map_.size(), which
\* counts the sentinel bucket, in place of capacity_.
erase_mod_size(t, key) ==
    LET hashed_key == t.hasher_[key] % Len(t.hash_map_)
        bucket == t.hash_map_[hashed_key + 1]
        j == find_if_key(bucket, key)
    IN  IF j = Len(bucket) THEN t
        ELSE rehash_if_necessary(
                 [t EXCEPT !.hash_map_[hashed_key + 1] = vector_erase(@, j),
                           !.sz_ = @ - 1])

erase(t, key) ==
    LET hashed_key == hash_key(t, key)
        bucket == t.hash_map_[hashed_key + 1]
        j == find_if_key(bucket, key)
    IN  IF j = Len(bucket) THEN t
        ELSE rehash_if_necessary(
                 [t EXCEPT !.hash_map_[hashed_key + 1] = vector_erase(@, j),
                           !.sz_ = @ - 1])

\* insert({key, ValueType()}); return find(key)->second;
index(t, key) ==
    LET u == insert(t, [first |-> key, second |-> DefaultValue])
    IN  [table |-> u, value |-> deref(u, find(u, key)).second]

\* Mutant of at: the throw is missing, the sentinel's value is returned.
at_no_throw(t, key) ==
    [outcome |-> "ok", value |-> deref(t, find(t, key)).second]

\* throw std::out_of_range(...) when find(key) == end(), else it->second
at(t, key) ==
    LET p == find(t, key)
    IN  IF p = end(t)
        THEN [outcome |-> "out_of_range", value |-> DefaultValue]
        ELSE [outcome |-> "ok", value |-> deref(t, p).second]

\* Mutant of clear: sz_ = 0 is missing.
clear_keeps_size(t) ==
    [t EXCEPT !.hash_map_ = << <<>>, <<end_>> >>, !.capacity_ = 1]

\* hash_map_ = {{}, {end_}}; sz_ = 0; capacity_ = 1;
clear(t) ==
    [t EXCEPT !.hash_map_ = << <<>>, <<end_>> >>, !.sz_ = 0, !.capacity_ = 1]

\* explicit HashMap(Hash hasher): the member initialisers of lines 72-75.
HashMap(hasher) ==
    [hash_map_ |-> << <<>>, <<end_>> >>, hasher_ |-> hasher, sz_ |-> 0,
     capacity_ |-> 1, rehash_calls |-> 0]

\* HashMap(Iter start, Iter end, Hash hasher): insert(*it) for each element.
RECURSIVE insert_range(_, _)
insert_range(t, list) ==
    IF list = <<>> THEN t
    ELSE insert_range(insert(t, Head(list)), Tail(list))

HashMapRange(list, hasher) == insert_range(HashMap(hasher), list)

\* ------------------------------------------------------ the abstract map
\* insert(k, v) adds k -> v only when k is absent.
AbsInsert(m, k, v) == IF k \in DOMAIN m THEN m ELSE (k :> v) @@ m

AbsErase(m, k) == [x \in (DOMAIN m) \ {k} |-> m[x]]

RECURSIVE AbsRange(_, _)
AbsRange(m, list) ==
    IF list = <<>> THEN m
    ELSE AbsRange(AbsInsert(m, Head(list).first, Head(list).second), Tail(list))

AbsEmpty == [x \in {} |-> 0]

\* --------------------------------------------------------------- actions
ListInputs == UNION { [1..n -> ElementType] : n \in 0..MaxListLen }

\* The record of a call: its name and arguments, its outcome ("ok" or the
\* exception thrown), the value it returned, how often it evaluated the resize
\* policy, and size() and the capacity as they were when it was entered.
CallRecord(name, key, value, list, outcome, result, calls, old_sz, old_capacity) ==
    [name |-> name, key |-> key, value |-> value, list |-> list,
     outcome |-> outcome, result |-> result, rehash_calls |-> calls,
     old_sz |-> old_sz, old_capacity |-> old_capacity]

Call(name, key, value, list, outcome, result, calls) ==
    CallRecord(name, key, value, list, outcome, result, calls, sz_, capacity_)

\* Writes the object back.  The caller keeps an iterator only from one
\* iterator call (find, begin, end, ++) to the next: insert, erase, clear and
\* a rehash invalidate it, and it is dropped before every other call.
Store(t) ==
    /\ hash_map_' = t.hash_map_
    /\ sz_' = t.sz_
    /\ capacity_' = t.capacity_
    /\ hasher_' = t.hasher_
    /\ it' = NoIter

Init ==
    \E hasher \in Hashers, list \in ListInputs :
        LET t == HashMapRange(list, hasher)
        IN  /\ hash_map_ = t.hash_map_
            /\ hasher_ = t.hasher_
            /\ sz_ = t.sz_
            /\ capacity_ = t.capacity_
            /\ it = NoIter
            /\ op = CallRecord("HashMap", DefaultKey, DefaultValue, list, "ok",
                               DefaultValue, t.rehash_calls,
                               HashMap(hasher).sz_, HashMap(hasher).capacity_)
            /\ M = AbsRange(AbsEmpty, list)

Insert(k, v) ==
    LET t == insert(this, [first |-> k, second |-> v])
    IN  /\ Store(t)
        /\ op' = Call("insert", k, v, <<>>, "ok", DefaultValue, t.rehash_calls)
        /\ M' = AbsInsert(M, k, v)

Erase(k) ==
    LET t == erase(this, k)
    IN  /\ Store(t)
        /\ op' = Call("erase", k, DefaultValue, <<>>, "ok", DefaultValue,
                      t.rehash_calls)
        /\ M' = AbsErase(M, k)

Index(k) ==
    LET r == index(this, k)
    IN  /\ Store(r.table)
        /\ op' = Call("operator[]", k, DefaultValue, <<>>, "ok", r.value,
                      r.table.rehash_calls)
        /\ M' = AbsInsert(M, k, DefaultValue)

At(k) ==
    LET r == at(this, k)
    IN  /\ op' = Call("at", k, DefaultValue, <<>>, r.outcome, r.value, 0)
        /\ it' = NoIter
        /\ UNCHANGED <<hash_map_, hasher_, sz_, capacity_, M>>

Clear ==
    LET t == clear(this)
    IN  /\ Store(t)
        /\ op' = Call("clear", DefaultKey, DefaultValue, <<>>, "ok",
                      DefaultValue, 0)
        /\ M' = AbsEmpty

Find(k) ==
    /\ it' = find(this, k)
    /\ op' = Call("find", k, DefaultValue, <<>>, "ok", DefaultValue, 0)
    /\ UNCHANGED <<hash_map_, hasher_, sz_, capacity_, M>>

Begin ==
    /\ it' = begin(this)
    /\ op' = Call("begin", DefaultKey, DefaultValue, <<>>, "ok", DefaultValue, 0)
    /\ UNCHANGED <<hash_map_, hasher_, sz_, capacity_, M>>

End ==
    /\ it' = end(this)
    /\ op' = Call("end", DefaultKey, DefaultValue, <<>>, "ok", DefaultValue, 0)
    /\ UNCHANGED <<hash_map_, hasher_, sz_, capacity_, M>>

\* ++it on a valid iterator that is not end() (incrementing end() or an
\* invalidated iterator is outside the iterator contract).
Increment ==
    /\ it # NoIter
    /\ it # Dangling
    /\ it # end(this)
    /\ it' = increment(this, it)
    /\ op' = Call("operator++", DefaultKey, DefaultValue, <<>>, "ok",
                  DefaultValue, 0)
    /\ UNCHANGED <<hash_map_, hasher_, sz_, capacity_, M>>

Next ==
    \/ \E k \in Keys, v \in Values : Insert(k, v)
    \/ \E k \in Keys : Erase(k)
    \/ \E k \in Keys : Index(k)
    \/ \E k \in Keys : At(k)
    \/ \E k \in Keys : Find(k)
    \/ Clear
    \/ Begin
    \/ End
    \/ Increment

Spec == Init /\ [][Next]_vars

\* ------------------------------------------- the eight-key call sequences
\* A second instantiation of the template, with eight keys and two hashers
\* (injective; multiples of four, which collide modulo 4, 8 and 16), driven
\* through the call sequences "insert distinct keys into a fresh or cleared
\* table, and once eight are in, erase them one at a time down to two".  The
\* keys go in in ascending or in descending order, and the value inserted is
\* the number of elements inserted before it, so that the stored value of an
\* element tells when it was inserted.
ScenarioKeys == 0..7

ScenarioHashers ==
    { [k \in ScenarioKeys |-> k],
      [k \in ScenarioKeys |-> 4 * k] }

InScenario == DOMAIN hasher_ = ScenarioKeys

\* No erase since the table was constructed or cleared.
OnlyInserted == op.name \in {"HashMap", "clear", "insert"}

ScenarioInit ==
    \E hasher \in ScenarioHashers :
        LET t == HashMapRange(<<>>, hasher)
        IN  /\ hash_map_ = t.hash_map_
            /\ hasher_ = t.hasher_
            /\ sz_ = t.sz_
            /\ capacity_ = t.capacity_
            /\ it = NoIter
            /\ op = CallRecord("HashMap", DefaultKey, DefaultValue, <<>>, "ok",
                               DefaultValue, t.rehash_calls,
                               HashMap(hasher).sz_, HashMap(hasher).capacity_)
            /\ M = AbsRange(AbsEmpty, <<>>)

ScenarioInsert(k) ==
    /\ InScenario
    /\ OnlyInserted
    /\ k \notin DOMAIN M
    /\ \/ DOMAIN M \cup {k} = 0..sz_
       \/ DOMAIN M \cup {k} = (7 - sz_)..7
    /\ Insert(k, sz_)

ScenarioErase(k) ==
    /\ InScenario
    /\ \/ op.name = "insert" /\ sz_ = 8
       \/ op.name = "erase" /\ sz_ > 2
    /\ k \in DOMAIN M
    /\ Erase(k)

ScenarioClear ==
    /\ InScenario
    /\ Clear

ScenarioNext ==
    \/ \E k \in ScenarioKeys : ScenarioInsert(k)
    \/ \E k \in ScenarioKeys : ScenarioErase(k)
    \/ ScenarioClear

\* Both instantiations side by side.
WideInit == Init \/ ScenarioInit

WideNext ==
    \/ ~InScenario /\ Next
    \/ ScenarioNext

WideSpec == WideInit /\ [][WideNext]_vars

\* ------------------------------------------------- observations of a state
\* The real buckets: every bucket but the last one of the bucket vector.
RealBuckets(hm) == 1..(Len(hm) - 1)

\* The places (bucket, offset), 1-based, of the elements of the real buckets.
Slots(hm) == UNION { { <<b, n>> : n \in 1..Len(hm[b]) } : b \in RealBuckets(hm) }

StoredEntries(hm) == { hm[s[1]][s[2]] : s \in Slots(hm) }

StoredKeys(hm) == { e.first : e \in StoredEntries(hm) }

AbsEntries(m) == { [first |-> k, second |-> m[k]] : k \in DOMAIN m }

Range(seq) == { seq[n] : n \in 1..Len(seq) }

\* for (it = begin(); it != end(); ++it) visit(*it), cut after fuel steps.
RECURSIVE WalkFrom(_, _, _, _)
WalkFrom(t, p, visited, fuel) ==
    IF p = end(t) \/ p = Dangling \/ fuel = 0
    THEN [visited |-> visited, last |-> p]
    ELSE WalkFrom(t, increment(t, p), Append(visited, deref(t, p)), fuel - 1)

Walk(t) == WalkFrom(t, begin(t), <<>>, Cardinality(Slots(t.hash_map_)) + 1)

TableUnchanged ==
    /\ hash_map_' = hash_map_
    /\ sz_' = sz_
    /\ capacity_' = capacity_
    /\ hasher_' = hasher_

\* ------------------------------------------------------------------ claims

\* C1: walking from begin() with ++ until the iterator equals end() ends at
\* end(), visits exactly size() elements, no key twice, and the set of
\* (key, value) pairs visited is the abstract map M.
C1_IterationIsTheMap ==
    LET w == Walk(this)
    IN  /\ w.last = end(this)
        /\ w.last # Dangling
        /\ Len(w.visited) = size(this)
        /\ \A a, b \in 1..Len(w.visited) :
               a # b => w.visited[a].first # w.visited[b].first
        /\ Range(w.visited) = AbsEntries(M)

\* C1 witness: after an erase that removed an element, a walk over the two
\* elements left that has to skip an empty bucket between two non-empty ones.
C1_Witness ==
    /\ op.name = "erase"
    /\ op.rehash_calls = 1
    /\ sz_ = 2
    /\ Len(Walk(this).visited) = 2
    /\ \E a, b, c \in RealBuckets(hash_map_) :
           /\ a < b /\ b < c
           /\ hash_map_[a] # <<>> /\ hash_map_[b] = <<>> /\ hash_map_[c] # <<>>

\* C2: insert(k, v2) on a table that holds key k changes neither the buckets
\* (so the stored value stays), nor size, nor capacity, and does not evaluate
\* the resize policy; and a table constructed from a list holds, for every key
\* of the list, the value of the key's first occurrence.
C2_InsertExistingStep ==
    (op'.name = "insert" /\ op'.key \in StoredKeys(hash_map_))
        => /\ TableUnchanged
           /\ op'.rehash_calls = 0
           /\ at([this EXCEPT !.hash_map_ = hash_map_'], op'.key) = at(this, op'.key)

C2_FirstWriteWins ==
    /\ op.name = "HashMap" =>
           /\ size(this) = Cardinality({ e.first : e \in Range(op.list) })
           /\ \A n \in 1..Len(op.list) :
                  (\A m \in 1..(n - 1) : op.list[m].first # op.list[n].first)
                      => at(this, op.list[n].first) =
                             [outcome |-> "ok", value |-> op.list[n].second]
    /\ [][C2_InsertExistingStep]_vars

\* C2 witness: insert(k, v2) has returned without evaluating the resize
\* policy and the table holds k with a value other than v2.
C2_Witness ==
    /\ op.name = "insert"
    /\ op.rehash_calls = 0
    /\ at(this, op.key).outcome = "ok"
    /\ at(this, op.key).value # op.value

\* C3: size() is the number of elements in the real buckets and the number of
\* keys of M; find(k) is an iterator into a real bucket at an element with key
\* k when k is in M, and is end() when it is not.
C3_SizeAndFind ==
    /\ size(this) = Cardinality(Slots(hash_map_))
    /\ size(this) = Cardinality(DOMAIN M)
    /\ \A k \in Keys :
           LET p == find(this, k)
           IN  IF k \in DOMAIN M
               THEN /\ p # end(this)
                    /\ p.i >= 0 /\ p.i < capacity_
                    /\ p.j >= 0 /\ p.j < Len(hash_map_[p.i + 1])
                    /\ deref(this, p).first = k
               ELSE p = end(this)

\* C3 witness: after an erase that removed an element, with two keys left
\* and one key absent.
C3_Witness ==
    /\ op.name = "erase"
    /\ op.rehash_calls = 1
    /\ sz_ = 2
    /\ find(this, op.key) = end(this)

\* C4: erase(k) of a key the table does not hold changes neither the buckets
\* nor size nor capacity and does not evaluate the resize policy.
C4_EraseAbsentStep ==
    (op'.name = "erase" /\ op'.key \notin StoredKeys(hash_map_))
        => /\ TableUnchanged
           /\ op'.rehash_calls = 0

C4_EraseAbsentNoOp == [][C4_EraseAbsentStep]_vars

\* C4 witness: erase has returned without evaluating the resize policy on a
\* table that holds other keys.
C4_Witness ==
    /\ op.name = "erase"
    /\ op.rehash_calls = 0
    /\ sz_ >= 2
    /\ op.key \notin StoredKeys(hash_map_)

\* C5: for every key k of M, at(k) and operator[](k) return M[k], the value of
\* the insert that made k present, and operator[](k) leaves the table as it
\* is; the values the calls at and operator[] returned are the ones of M.
C5_RoundTrip ==
    /\ \A k \in DOMAIN M :
           /\ at(this, k) = [outcome |-> "ok", value |-> M[k]]
           /\ index(this, k) = [table |-> this, value |-> M[k]]
    /\ (op.name = "at" /\ op.outcome = "ok") => op.result = M[op.key]
    /\ op.name = "operator[]" => op.result = M[op.key]

\* C5 witness: operator[] on a present key has returned a non-default value
\* from a table that holds other keys too.
C5_Witness ==
    /\ op.name = "operator[]"
    /\ op.rehash_calls = 0
    /\ op.result # DefaultValue
    /\ sz_ >= 2

\* C6: at(k) on an absent key throws out_of_range and leaves the table as it
\* is; no other call throws; operator[](k) on an absent key does not throw,
\* adds the element (k, ValueType()), increases size by one, evaluates the
\* resize policy once and returns ValueType().
C6_ErrorStep ==
    /\ (op'.name = "at" /\ op'.key \notin StoredKeys(hash_map_))
           => /\ op'.outcome = "out_of_range"
              /\ TableUnchanged
    /\ op'.outcome # "ok"
           => /\ op'.outcome = "out_of_range"
              /\ op'.name = "at"
              /\ op'.key \notin StoredKeys(hash_map_)
    /\ (op'.name = "operator[]" /\ op'.key \notin StoredKeys(hash_map_))
           => /\ op'.outcome = "ok"
              /\ StoredEntries(hash_map_') =
                     StoredEntries(hash_map_) \cup
                         {[first |-> op'.key, second |-> DefaultValue]}
              /\ sz_' = sz_ + 1
              /\ op'.rehash_calls = 1
              /\ op'.result = DefaultValue

C6_AtThrowsIndexCreates == [][C6_ErrorStep]_vars

\* C6 witness: at has thrown on a non-empty table.
C6_Witness ==
    /\ op.name = "at"
    /\ op.outcome = "out_of_range"
    /\ sz_ >= 1

\* C7: after clear() the table is the freshly constructed one: size 0,
\* empty(), capacity 1, one empty real bucket and the sentinel bucket; find
\* of every key is end(), and begin() is end().
C7_ClearIsFresh ==
    op.name = "clear" =>
        /\ this = HashMap(hasher_)
        /\ size(this) = 0
        /\ empty(this)
        /\ capacity_ = 1
        /\ hash_map_ = << <<>>, <<end_>> >>
        /\ \A k \in Keys : find(this, k) = end(this)
        /\ begin(this) = end(this)
        /\ end(this) = Pos(1, 0)

\* C7 witness: clear() has returned on a table that had three elements in
\* four buckets.
C7_Witness ==
    /\ op.name = "clear"
    /\ op.old_sz = 3
    /\ op.old_capacity = 4

\* C8: every element of real bucket number b has hash(key) % capacity = b.
C8_BucketIsHashModCapacity ==
    \A s \in Slots(hash_map_) :
        hasher_[hash_map_[s[1]][s[2]].first] % capacity_ = s[1] - 1

\* C8 witness: right after the shrink rehash from four buckets to two, with
\* the element left in bucket 1.
C8_Witness ==
    /\ op.name = "erase"
    /\ op.old_capacity = 4
    /\ capacity_ = 2
    /\ sz_ = 1
    /\ hash_map_[1] = <<>>

\* C9: no two elements of the real buckets have the same key.
C9_KeysUnique ==
    \A s, u \in Slots(hash_map_) :
        s # u => hash_map_[s[1]][s[2]].first # hash_map_[u[1]][u[2]].first

\* C9 witness: all keys hash to one bucket, the bucket holds three elements
\* after rehashes, and an insert of a key it holds has returned.
C9_Witness ==
    /\ \A k \in Keys : hasher_[k] = hasher_[DefaultKey]
    /\ \E b \in RealBuckets(hash_map_) : Len(hash_map_[b]) = 3
    /\ op.name = "insert"
    /\ op.rehash_calls = 0

\* C10: capacity is at least 1, the bucket vector has capacity + 1 buckets,
\* and its last bucket holds exactly the one sentinel element end_.
C10_SentinelLast ==
    /\ capacity_ >= 1
    /\ Len(hash_map_) = capacity_ + 1
    /\ hash_map_[Len(hash_map_)] = <<end_>>

\* C10 witness: right after an erase whose rehash changed the capacity.
C10_Witness ==
    /\ op.rehash_calls = 1
    /\ op.old_capacity # capacity_
    /\ op.name = "erase"

\* The resize check of a call that ran it saw the size the call left and the
\* capacity the call found.
GrowTrigger == sz_ * INCREASING_SIZE_COEFFICIENT = op.old_capacity

ShrinkTrigger == sz_ * DECREASING_SIZE_COEFFICIENT = op.old_capacity

Mutation == op.name \in {"insert", "erase", "operator[]"}

\* C11: after an insert, operator[] or erase that changed the size, leaving
\* size s on capacity c: the capacity is 2 * s with every element in bucket
\* hash % (2 * s) when s = c or 4 * s = c, and is c otherwise.  Eight inserts
\* into a fresh table and then erases: the capacity changes exactly at the
\* erases that reach size 4 and size 2, and is 4 at size 2.
C11_ResizePolicy ==
    /\ Mutation =>
           /\ (sz_ # op.old_sz) = (op.rehash_calls = 1)
           /\ op.rehash_calls = 1 =>
                  IF GrowTrigger \/ ShrinkTrigger
                  THEN /\ capacity_ = 2 * sz_
                       /\ Len(hash_map_) = 2 * sz_ + 1
                       /\ StoredEntries(hash_map_) = AbsEntries(M)
                       /\ \A s \in Slots(hash_map_) :
                              hasher_[hash_map_[s[1]][s[2]].first] % (2 * sz_)
                                  = s[1] - 1
                  ELSE capacity_ = op.old_capacity
    /\ (InScenario /\ op.name = "insert" /\ sz_ = 8) => capacity_ = 16
    /\ (InScenario /\ op.name = "erase") =>
           /\ (capacity_ # op.old_capacity) = (sz_ \in {4, 2})
           /\ sz_ = 2 => capacity_ = 4

\* C11 witness: the sixth erase after eight inserts has shrunk the table
\* from eight buckets to four.
C11_Witness ==
    /\ InScenario
    /\ op.name = "erase"
    /\ sz_ = 2
    /\ op.old_capacity = 8
    /\ capacity_ = 4

\* The resize check of the step ran once and found the new size equal to the
\* capacity or to a quarter of it.
TriggerFound ==
    /\ op'.rehash_calls = 1
    /\ \/ sz_' * INCREASING_SIZE_COEFFICIENT = capacity_
       \/ sz_' * DECREASING_SIZE_COEFFICIENT = capacity_

\* C12 as claimed: the capacity after a step differs from the capacity
\* before it only if the step's resize check found size = capacity or
\* 4 * size = capacity.
C12_OnlyTriggersChangeCapacity ==
    [][capacity_' # capacity_ => TriggerFound]_vars

\* C12 as amended: the capacity after a step differs from the capacity before
\* it only if the step is clear(), which runs no resize check and sets the
\* capacity to 1, or the step's resize check found size = capacity or
\* 4 * size = capacity.
C12_OnlyTriggersOrClearChangeCapacity ==
    [][capacity_' # capacity_ =>
           \/ op'.name = "clear" /\ op'.rehash_calls = 0 /\ capacity_' = 1
           \/ op'.name # "clear" /\ TriggerFound]_vars

\* C12 witness: clear() has taken a table of two elements in four buckets
\* to one bucket.
C12_Witness ==
    /\ op.name = "clear"
    /\ op.old_sz = 2
    /\ op.old_capacity = 4
    /\ capacity_ = 1

\* C13: end() is the position (sentinel bucket, offset 0); begin() is end()
\* exactly when the table is empty; on a non-empty table begin() is offset 0
\* of the lowest-indexed non-empty real bucket.
C13_BeginAndEnd ==
    /\ end(this) = Pos(capacity_, 0)
    /\ end(this) = Pos(Len(hash_map_) - 1, 0)
    /\ (begin(this) = end(this)) = empty(this)
    /\ ~empty(this) =>
           \E b \in RealBuckets(hash_map_) :
               /\ hash_map_[b] # <<>>
               /\ \A a \in 1..(b - 1) : hash_map_[a] = <<>>
               /\ begin(this) = Pos(b - 1, 0)
    /\ op.name = "begin" => it = begin(this)
    /\ op.name = "end" => it = Pos(capacity_, 0)

\* C13 witness: begin() has returned a position behind an empty first
\* bucket on a table with two elements.
C13_Witness ==
    /\ op.name = "begin"
    /\ sz_ = 2
    /\ it.i >= 1
    /\ it.i < capacity_

\* The positions of the elements of the real buckets, as iterators.
EntryPositions(hm) == { Pos(s[1] - 1, s[2] - 1) : s \in Slots(hm) }

Before(p, q) == p.i < q.i \/ (p.i = q.i /\ p.j < q.j)

\* The element position that follows p in (bucket, offset) order, the
\* position (sentinel bucket, 0) when p is the last one.
Following(hm, p) ==
    LET later == { q \in EntryPositions(hm) : Before(p, q) }
    IN  IF later = {} THEN Pos(Len(hm) - 1, 0)
        ELSE CHOOSE q \in later : \A r \in later : r = q \/ Before(q, r)

ValidPosition(hm, p) == p \in EntryPositions(hm) \cup {Pos(Len(hm) - 1, 0)}

\* C14: ++ on the position of any element of a real bucket ends inside the
\* bucket vector, at the element that follows in (bucket, offset) order or,
\* from the last element, exactly at (sentinel bucket, 0); begin(), end() and
\* find() build such positions too, and so does every ++ the caller makes.
C14_AdvanceStopsAtSentinel ==
    /\ \A p \in EntryPositions(hash_map_) :
           LET q == increment(this, p)
           IN  /\ q # Dangling
               /\ q.i <= capacity_
               /\ q = Following(hash_map_, p)
    /\ ValidPosition(hash_map_, begin(this))
    /\ ValidPosition(hash_map_, end(this))
    /\ \A k \in Keys : ValidPosition(hash_map_, find(this, k))
    /\ op.name \in {"operator++", "begin", "end", "find"} =>
           ValidPosition(hash_map_, it)

\* C14 witness: ++ has moved from the last element over an empty last real
\* bucket to the sentinel bucket.
C14_Witness ==
    /\ op.name = "operator++"
    /\ it = Pos(capacity_, 0)
    /\ sz_ >= 2
    /\ hash_map_[capacity_] = <<>>

\* C15: the calls with a key index a real bucket only (hash_key is below
\* capacity_, the index of the sentinel bucket), every step leaves the
\* sentinel bucket as the last bucket holding end_ alone, and the key of the
\* sentinel, KeyType(), is a key like any other: while the table does not
\* hold it find returns end(), at throws, erase changes nothing and insert
\* adds a real element and increases size; erase of it when held removes
\* that one real element.
C15_Step ==
    LET k == op'.key
        held == k \in StoredKeys(hash_map_)
    IN  /\ hash_map_'[Len(hash_map_')] = <<end_>>
        /\ Len(hash_map_') = capacity_' + 1
        /\ op'.name \in {"find", "insert", "erase", "at", "operator[]"} =>
               /\ hash_key(this, k) >= 0
               /\ hash_key(this, k) < capacity_
               /\ hash_key(this, k) + 1 < Len(hash_map_)
        /\ (k = DefaultKey /\ ~held) =>
               /\ op'.name = "find" => it' = Pos(capacity_, 0)
               /\ op'.name = "at" => op'.outcome = "out_of_range"
               /\ op'.name = "erase" => TableUnchanged
               /\ op'.name = "insert" =>
                      /\ sz_' = sz_ + 1
                      /\ StoredEntries(hash_map_') =
                             StoredEntries(hash_map_) \cup
                                 {[first |-> DefaultKey, second |-> op'.value]}
        /\ (k = DefaultKey /\ held) =>
               /\ op'.name = "find" =>
                      /\ it'.i < capacity_
                      /\ deref(this, it').first = DefaultKey
               /\ op'.name = "at" => op'.outcome = "ok"
               /\ op'.name = "erase" =>
                      /\ sz_' = sz_ - 1
                      /\ StoredKeys(hash_map_') =
                             StoredKeys(hash_map_) \ {DefaultKey}

C15_SentinelTakesNoPart == [][C15_Step]_vars

\* C15 witness: insert of the key KeyType() with a value other than the
\* sentinel's has added a real element, which find returns.
C15_Witness ==
    /\ op.name = "insert"
    /\ op.key = DefaultKey
    /\ op.value # DefaultValue
    /\ op.rehash_calls = 1
    /\ sz_ >= 2
    /\ find(this, DefaultKey).i < capacity_
    /\ deref(this, find(this, DefaultKey)) =
           [first |-> DefaultKey, second |-> op.value]
    /\ hash_map_[Len(hash_map_)] = <<end_>>

\* In the eight-key call sequences the value of an element is the number of
\* elements inserted before it: a bucket is in insertion order when its
\* values increase.
InInsertionOrder(bucket) ==
    \A m, n \in 1..Len(bucket) : m < n => bucket[m].second < bucket[n].second

\* C16 as claimed: in every reachable state the elements of each real bucket
\* are in the order of their insertion, also after grow and shrink rehashes.
C16_BucketsInInsertionOrder ==
    InScenario =>
        \A b \in RealBuckets(hash_map_) : InInsertionOrder(hash_map_[b])

\* C16 as amended: the elements of each real bucket are in the order of their
\* insertion, also after grow rehashes and after erases, as long as no shrink
\* rehash has run since the table was constructed or cleared (in the
\* eight-key sequences: before the first erase, and in the erases that leave
\* the sixteen buckets of the eighth insert).
C16_InsertionOrderUntilShrink ==
    (InScenario /\ (OnlyInserted \/ (op.name = "erase" /\ capacity_ = 16))) =>
        \A b \in RealBuckets(hash_map_) : InInsertionOrder(hash_map_[b])

\* C16 witness: the grow rehash from four buckets to eight has just filled
\* a bucket with two elements.
C16_Witness ==
    /\ InScenario
    /\ op.name = "insert"
    /\ op.old_capacity = 4
    /\ capacity_ = 8
    /\ \E b \in RealBuckets(hash_map_) : Len(hash_map_[b]) >= 2

\* C17: a resize check that an insert or operator[] ran and that fired, fired
\* on size = capacity and not on 4 * size = capacity, and doubled the
\* capacity; one that an erase ran and that fired, fired on 4 * size =
\* capacity and not on size = capacity, and halved the capacity; and the
\* capacity an insert, operator[] or erase leaves is the one it found, its
\* double or its half.
C17_DoublesOrHalves ==
    /\ (op.name \in {"insert", "operator[]"} /\ op.rehash_calls = 1
            /\ (GrowTrigger \/ ShrinkTrigger)) =>
           /\ GrowTrigger
           /\ ~ShrinkTrigger
           /\ capacity_ = 2 * op.old_capacity
    /\ (op.name = "erase" /\ op.rehash_calls = 1
            /\ (GrowTrigger \/ ShrinkTrigger)) =>
           /\ ShrinkTrigger
           /\ ~GrowTrigger
           /\ 2 * capacity_ = op.old_capacity
    /\ (Mutation /\ capacity_ # op.old_capacity) =>
           /\ op.rehash_calls = 1
           /\ \/ capacity_ = 2 * op.old_capacity
              \/ 2 * capacity_ = op.old_capacity

\* C17 witness: operator[] on an absent key has doubled two buckets to four.
C17_Witness ==
    /\ op.name = "operator[]"
    /\ op.rehash_calls = 1
    /\ op.old_capacity = 2
    /\ capacity_ = 4

\* The smallest power of two strictly greater than n.
RECURSIVE PowerOfTwoAbove(_, _)
PowerOfTwoAbove(n, p) == IF p > n THEN p ELSE PowerOfTwoAbove(n, 2 * p)

\* C18: a table that holds n >= 1 keys, all inserted into the freshly
\* constructed or just cleared table with no erase in between (a table built
\* by the range constructor, the first insert into an empty one-bucket table,
\* the eight-key sequences before their first erase), has as capacity the
\* smallest power of two above n; keys 0..3 inserted in this order leave
\* capacities 2, 4, 4, 8 and grow the table at the 1st, 2nd and 4th insert.
C18_CapacityAfterInsertsOnly ==
    /\ (sz_ >= 1 /\ (IF InScenario THEN OnlyInserted ELSE op.name = "HashMap")) =>
           capacity_ = PowerOfTwoAbove(sz_, 1)
    /\ (op.name \in {"insert", "operator[]"} /\ op.rehash_calls = 1
            /\ op.old_sz = 0 /\ op.old_capacity = 1) =>
           capacity_ = PowerOfTwoAbove(1, 1)
    /\ (InScenario /\ op.name = "insert" /\ sz_ <= 4
            /\ DOMAIN M = 0..(sz_ - 1)) =>
           /\ capacity_ = <<2, 4, 4, 8>>[sz_]
           /\ (capacity_ # op.old_capacity) = (sz_ \in {1, 2, 4})

\* C18 witness: the insert of key 3 after keys 0, 1, 2 has grown the table
\* from four buckets to eight.
C18_Witness ==
    /\ InScenario
    /\ op.name = "insert"
    /\ op.key = 3
    /\ DOMAIN M = 0..3
    /\ op.old_capacity = 4
    /\ capacity_ = 8

\* C19: between operations the capacity is a power of two, the size is below
\* the capacity, a non-empty table holds more than a quarter of its capacity,
\* and an empty table has capacity 1 or 2.
C19_LoadFactorBounds ==
    /\ capacity_ >= 1
    /\ PowerOfTwoAbove(capacity_ - 1, 1) = capacity_
    /\ sz_ < capacity_
    /\ sz_ >= 1 => sz_ * DECREASING_SIZE_COEFFICIENT > capacity_
    /\ sz_ = 0 => capacity_ \in {1, 2}

\* C19 witness: the erase of the last key has left an empty table of two
\* buckets, a quarter-load that the shrink check does not see.
C19_Witness ==
    /\ op.name = "erase"
    /\ op.old_sz = 1
    /\ sz_ = 0
    /\ capacity_ = 2

====
